---- MODULE Spec2Model ----
(***************************************************************************)
(* A model of the installation engine of a11y-devkit-deploy:               *)
(*   - the configuration store (mergeServers, removeServers, the minimal   *)
(*     TOML parser and serializer, loadConfig, installMcpConfig,           *)
(*     removeMcpConfig),                                                   *)
(*   - the repository provisioner (ensureRepo),                            *)
(*   - the host path resolvers (getIdePaths, getHostApplicationPaths).     *)
(*                                                                         *)
(* Representation of JavaScript values.                                    *)
(*   A string is a sequence of symbols.  A symbol is either one of the     *)
(*   punctuation characters the code inspects ("[", "]", ".", ",", "=",    *)
(*   the double quote, "#", the blank) or a word symbol, which stands for  *)
(*   a non-empty run of \w characters ("command", "node", "42").  No       *)
(*   operation of the code splits or joins a run of \w characters, so the  *)
(*   code's string operations act on symbols as they act on characters.    *)
(*   A value is a record [t, v]: t is the JavaScript kind of the value and *)
(*   v its content.  An object is the sequence of its [k, v] properties in *)
(*   insertion order, which is the order Object.entries, the spread and    *)
(*   JSON.stringify follow.                                                *)
(***************************************************************************)
EXTENDS Integers, Sequences, FiniteSets, TLC

VARIABLES
    doc,        \* ConfigStore, in memory: the current document
    pre,        \* the document passed to the last mergeServers/removeServers
    existing,   \* the caller's argument object as it is after that call
    op,         \* the last call: [kind, k, removed]
    origin,     \* the document the run started from
    tdoc,       \* round trip: the document handed to stringifySimpleToml
    ttext,      \* round trip: the text it was serialized to
    tparsed,    \* round trip: the document parseSimpleToml read back
    tphase,     \* round trip: "doc", "text" or "parsed"
    configPath, \* config file: its path
    file,       \* config file: its content, or absent
    bak,        \* the sibling `${configPath}.bak`: its content, or absent
    loaded,     \* what loadConfig returned to the last call
    threw,      \* whether the last call ended with an exception
    last,       \* the last call: [kind, S, names, k]
    prevFile,   \* the content of the file when the last call began
    prevLast,   \* the call before the last one
    fileOrigin, \* the content of the file when the run began
    calls,      \* the number of calls made
    dir,        \* repository directory: [kind, rev]
    remoteRev,  \* the revision at the head of the remote repository
    procs,      \* the git processes spawned so far, in order
    outcomes,   \* what each ensureRepo call returned or threw, in order
    dirOrigin,  \* the directory when the run began
    prevDir,    \* the directory when the last ensureRepo call began
    prevProcs,  \* the processes spawned before the last ensureRepo call
    host,       \* path resolver: the host descriptor
    platform,   \* path resolver: os.platform()
    appData,    \* path resolver: process.env.APPDATA, <<>> when unset
    resolver,   \* path resolver: the function that was called, or "none"
    resolved,   \* path resolver: the paths it returned for the host
    repoUrl,    \* installGitMcp: mcpConfig.repoUrl
    repoPath,   \* installGitMcp: what is at repoPath, "absent" when nothing
    pathBefore, \* installGitMcp: what was at repoPath when the call began
    gitPc,      \* installGitMcp: the await the call is suspended at
    overwrite,  \* installGitMcp: the answer to the prompt, "unasked" before
    steps,      \* installGitMcp: the effects of the call so far, in order
    cloneErr,   \* installGitMcp: err.message caught by cloneGitRepo, <<>> if none
    thrown,     \* installGitMcp: the message of the error the call threw
    installs    \* the number of installGitMcp calls begun

docVars == <<doc, pre, existing, op, origin>>
tomlVars == <<tdoc, ttext, tparsed, tphase>>

fsVars == <<configPath, file, bak, loaded, threw, last, prevFile, prevLast, fileOrigin, calls>>

repoVars == <<dir, remoteRev, procs, outcomes, dirOrigin, prevDir, prevProcs>>

pathVars == <<host, platform, appData, resolver, resolved>>

gitVars == <<repoUrl, repoPath, pathBefore, gitPc, overwrite, steps, cloneErr, thrown, installs>>

vars == <<docVars, tomlVars, fsVars, repoVars, pathVars, gitVars>>

\* what each machine leaves alone: the variables of the other machines
notDocVars == <<tomlVars, fsVars, repoVars, pathVars, gitVars>>
notTomlVars == <<docVars, fsVars, repoVars, pathVars, gitVars>>
notFsVars == <<docVars, tomlVars, repoVars, pathVars, gitVars>>
notRepoVars == <<docVars, tomlVars, fsVars, pathVars, gitVars>>
notPathVars == <<docVars, tomlVars, fsVars, repoVars, gitVars>>
notGitVars == <<docVars, tomlVars, fsVars, repoVars, pathVars>>

(***************************************************************************)
(* JavaScript values                                                       *)
(***************************************************************************)
Str(s) == [t |-> "str", v |-> s]
Arr(items) == [t |-> "arr", v |-> items]
Obj(props) == [t |-> "obj", v |-> props]
Null == [t |-> "null", v |-> <<>>]
Num(s) == [t |-> "num", v |-> s]
Prop(key, val) == [k |-> key, v |-> val]

EmptyObj == Obj(<<>>)

\* Object.prototype.hasOwnProperty.call(o, key)
Has(o, key) == o.t = "obj" /\ \E i \in 1..Len(o.v) : o.v[i].k = key

\* o[key], for an own property
Get(o, key) == o.v[CHOOSE i \in 1..Len(o.v) : o.v[i].k = key].v

\* o[key] = val: an existing property keeps its place, a new one goes last
Set(o, key, val) ==
    IF Has(o, key)
    THEN Obj([i \in 1..Len(o.v) |->
                IF o.v[i].k = key THEN Prop(key, val) ELSE o.v[i]])
    ELSE Obj(Append(o.v, Prop(key, val)))

\* delete o[key]
Del(o, key) ==
    LET keep(p) == p.k # key
    IN Obj(SelectSeq(o.v, keep))

\* Object.keys(o), as a set
Keys(o) == {o.v[i].k : i \in 1..Len(o.v)}

\* the decimal index of an array element, as a property key
IndexKey(i) == << <<"0">>, <<"1">>, <<"2">>, <<"3">> >>[i]

\* { ...x }: a fresh object with the own enumerable properties of x
Spread(x) ==
    CASE x.t = "obj" -> Obj(x.v)
      [] x.t = "arr" -> Obj([i \in 1..Len(x.v) |-> Prop(IndexKey(i), Str(x.v[i]))])
      [] OTHER -> EmptyObj

\* ToBoolean(x)
Truthy(x) ==
    CASE x.t = "null" -> FALSE
      [] x.t = "str" -> x.v # <<>>
      [] OTHER -> TRUE

\* typeof x === "object"
TypeofObject(x) == x.t \in {"obj", "arr", "null"}

\* Equality of two values ignoring the insertion order of object keys
RECURSIVE Equiv(_, _)
Equiv(x, y) ==
    IF x.t # y.t THEN FALSE
    ELSE IF x.t = "obj"
         THEN /\ Keys(x) = Keys(y)
              /\ \A key \in Keys(x) : Equiv(Get(x, key), Get(y, key))
         ELSE x = y

(***************************************************************************)
(* mergeServers and removeServers                                          *)
(***************************************************************************)
\* existing[serverKey] && typeof existing[serverKey] === "object"
HasSection(existingDoc, serverKey) ==
    /\ Has(existingDoc, serverKey)
    /\ Truthy(Get(existingDoc, serverKey))
    /\ TypeofObject(Get(existingDoc, serverKey))

\* { command: server.command, args: server.args || [] } and type if provided.
\* A server is a function from a subset of {"name","command","args","type"}.
ServerConfig(server) ==
    LET base == << Prop(<<"command">>, Str(server.command)),
                   Prop(<<"args">>,
                        IF "args" \in DOMAIN server THEN Arr(server.args)
                        ELSE Arr(<<>>)) >>
    IN IF "type" \in DOMAIN server /\ server.type # <<>>
       THEN Obj(Append(base, Prop(<<"type">>, Str(server.type))))
       ELSE Obj(base)

\* for (const server of incoming) section[server.name] = serverConfig
RECURSIVE WriteServers(_, _)
WriteServers(section, incoming) ==
    IF incoming = <<>> THEN section
    ELSE WriteServers(Set(section, Head(incoming).name, ServerConfig(Head(incoming))),
                      Tail(incoming))

\* The section object of `merged` if it shared the caller's section object
SectionShared(existingServers) == [obj |-> existingServers, shared |-> TRUE]

\* The section object of `merged`: { ...existingServers }, a fresh copy
SectionOfMerged(existingServers) == [obj |-> Spread(existingServers), shared |-> FALSE]

\* The whole call: the returned document, and the caller's object afterwards
\* (the loop writes through merged[serverKey]; the caller's object changes
\* only if that is the very object the caller's document holds).
MergeCall(existingDoc, incoming, serverKey) ==
    LET hasSec == HasSection(existingDoc, serverKey)
        existingServers == IF hasSec THEN Get(existingDoc, serverKey) ELSE EmptyObj
        sec == SectionOfMerged(existingServers)
        written == WriteServers(sec.obj, incoming)
    IN [ merged |-> Set(Spread(existingDoc), serverKey, written),
         existing |-> IF sec.shared /\ hasSec
                      THEN Set(existingDoc, serverKey, written)
                      ELSE existingDoc ]

mergeServers(existingDoc, incoming, serverKey) ==
    MergeCall(existingDoc, incoming, serverKey).merged

\* for (const name of removeNames) if (hasOwnProperty) { delete; removed++ }
RECURSIVE DeleteNames(_, _, _)
DeleteNames(servers, removeNames, removed) ==
    IF removeNames = <<>> THEN [servers |-> servers, removed |-> removed]
    ELSE IF Has(servers, Head(removeNames))
         THEN DeleteNames(Del(servers, Head(removeNames)), Tail(removeNames), removed + 1)
         ELSE DeleteNames(servers, Tail(removeNames), removed)

removeServers(existingDoc, removeNames, serverKey) ==
    IF ~HasSection(existingDoc, serverKey)
    THEN [updated |-> existingDoc, removed |-> 0]
    ELSE LET r == DeleteNames(Spread(Get(existingDoc, serverKey)), removeNames, 0)
         IN IF r.removed = 0
            THEN [updated |-> existingDoc, removed |-> 0]
            ELSE [ updated |-> IF Keys(r.servers) = {}
                               THEN Del(Spread(existingDoc), serverKey)
                               ELSE Set(Spread(existingDoc), serverKey, r.servers),
                   removed |-> r.removed ]

(***************************************************************************)
(* Strings, as the minimal TOML parser and serializer use them             *)
(***************************************************************************)
\* the symbols that are not a run of \w characters
NonWord == {"[", "]", ".", ",", "=", "\"", "#", " ", "\n", "-", "{", "}", ":"}
IsWord(c) == c \notin NonWord
IsSpace(c) == c \in {" ", "\n"}

StartsWith(s, c) == Len(s) > 0 /\ s[1] = c
EndsWith(s, c) == Len(s) > 0 /\ s[Len(s)] = c

\* s.slice(1, -1)
SliceInner(s) == SubSeq(s, 2, Len(s) - 1)

\* the symbols of s from the first one that is not white space
TrimStart(s) ==
    IF \A i \in 1..Len(s) : IsSpace(s[i]) THEN <<>>
    ELSE SubSeq(s, CHOOSE i \in 1..Len(s) :
                       ~IsSpace(s[i]) /\ \A j \in 1..(i - 1) : IsSpace(s[j]),
                Len(s))

\* the symbols of s up to the last one that is not white space
TrimEnd(s) ==
    IF \A i \in 1..Len(s) : IsSpace(s[i]) THEN <<>>
    ELSE SubSeq(s, 1, CHOOSE i \in 1..Len(s) :
                          ~IsSpace(s[i]) /\ \A j \in (i + 1)..Len(s) : IsSpace(s[j]))

\* s.trim()
Trim(s) == TrimEnd(TrimStart(s))

\* s.split(sep): the pieces between the occurrences of sep, at least one piece
RECURSIVE Split(_, _)
Split(s, sep) ==
    IF \A i \in 1..Len(s) : s[i] # sep THEN <<s>>
    ELSE LET first == CHOOSE i \in 1..Len(s) :
                          s[i] = sep /\ \A j \in 1..(i - 1) : s[j] # sep
         IN <<SubSeq(s, 1, first - 1)>> \o Split(SubSeq(s, first + 1, Len(s)), sep)

\* pieces.join(sep)
RECURSIVE Join(_, _)
Join(pieces, sep) ==
    IF pieces = <<>> THEN <<>>
    ELSE IF Len(pieces) = 1 THEN pieces[1]
         ELSE pieces[1] \o sep \o Join(Tail(pieces), sep)

\* the length of the longest prefix of s made of symbols satisfying IsWord
WordPrefixLen(s) ==
    IF \A i \in 1..Len(s) : IsWord(s[i]) THEN Len(s)
    ELSE (CHOOSE i \in 1..Len(s) :
              ~IsWord(s[i]) /\ \A j \in 1..(i - 1) : IsWord(s[j])) - 1

\* the index of the last occurrence of c in s, 0 if there is none
LastIndexOf(s, c) ==
    IF \E i \in 1..Len(s) : s[i] = c
    THEN CHOOSE i \in 1..Len(s) : s[i] = c /\ \A j \in (i + 1)..Len(s) : s[j] # c
    ELSE 0

(***************************************************************************)
(* parseSimpleToml                                                         *)
(***************************************************************************)
\* trimmed.match(/^\[([^\]]+)\]$/): the captured group, or "none"
TableMatch(trimmed) ==
    IF /\ Len(trimmed) >= 3
       /\ StartsWith(trimmed, "[")
       /\ EndsWith(trimmed, "]")
       /\ \A i \in 2..(Len(trimmed) - 1) : trimmed[i] # "]"
    THEN [ok |-> TRUE, inner |-> SliceInner(trimmed)]
    ELSE [ok |-> FALSE, inner |-> <<>>]

\* trimmed.match(/^(\w+)\s*=\s*(.+)$/): key and value, or no match
KvMatch(trimmed) ==
    LET n == WordPrefixLen(trimmed)
        afterKey == TrimStart(SubSeq(trimmed, n + 1, Len(trimmed)))
        value == IF StartsWith(afterKey, "=") THEN TrimStart(Tail(afterKey)) ELSE <<>>
    IN IF n > 0 /\ StartsWith(afterKey, "=") /\ value # <<>>
       THEN [ok |-> TRUE, key |-> SubSeq(trimmed, 1, n), value |-> value]
       ELSE [ok |-> FALSE, key |-> <<>>, value |-> <<>>]

\* the map callback of the array branch: trim, then remove the quotes
UnquoteItem(item) ==
    LET trimmedItem == Trim(item)
    IN IF StartsWith(trimmedItem, "\"") /\ EndsWith(trimmedItem, "\"")
       THEN SliceInner(trimmedItem)
       ELSE trimmedItem

\* arrayMatch[1].split(',').map(...)
ArrayItems(inner) ==
    LET pieces == Split(inner, ",")
    IN [i \in 1..Len(pieces) |-> UnquoteItem(pieces[i])]

\* the value stored for `key = value`; set is FALSE when nothing is stored
\* (a value that starts with "[" and has no closing "]")
ParseValue(value) ==
    IF StartsWith(value, "[")
    THEN LET close == LastIndexOf(value, "]")
         IN IF close > 1
            THEN [set |-> TRUE, val |-> Arr(ArrayItems(SubSeq(value, 2, close - 1)))]
            ELSE [set |-> FALSE, val |-> Null]
    ELSE IF StartsWith(value, "\"") /\ EndsWith(value, "\"")
         THEN [set |-> TRUE, val |-> Str(SliceInner(value))]
         ELSE [set |-> TRUE, val |-> Str(value)]

\* if (!result[section]) result[section] = {};
\* if (!result[section][table]) result[section][table] = {};
OpenTable(result, section, table) ==
    LET r1 == IF Has(result, section) THEN result ELSE Set(result, section, EmptyObj)
        sec == Get(r1, section)
    IN IF Has(sec, table) THEN r1 ELSE Set(r1, section, Set(sec, table, EmptyObj))

\* result[currentSection][currentTable][key] = val
StoreField(result, section, table, key, val) ==
    LET sec == Get(result, section)
    IN Set(result, section, Set(sec, table, Set(Get(sec, table), key, val)))

\* One iteration of the loop over the lines.  st = [result, section, table];
\* currentSection and currentTable are <<>> while they are null.
ParseLine(st, line) ==
    LET trimmed == Trim(line)
        tm == TableMatch(trimmed)
        kv == KvMatch(trimmed)
    IN IF trimmed = <<>> \/ StartsWith(trimmed, "#") THEN st
       ELSE IF tm.ok
            THEN LET parts == Split(tm.inner, ".")
                 IN IF Len(parts) = 2
                    THEN [ result |-> OpenTable(st.result, parts[1], parts[2]),
                           section |-> parts[1], table |-> parts[2] ]
                    ELSE st
            ELSE IF kv.ok /\ st.section # <<>> /\ st.table # <<>>
                 THEN LET pv == ParseValue(kv.value)
                      IN IF pv.set
                         THEN [st EXCEPT !.result =
                                  StoreField(st.result, st.section, st.table, kv.key, pv.val)]
                         ELSE st
                 ELSE st

RECURSIVE ParseLines(_, _)
ParseLines(st, lines) ==
    IF lines = <<>> THEN st
    ELSE ParseLines(ParseLine(st, Head(lines)), Tail(lines))

parseSimpleToml(content) ==
    ParseLines([result |-> EmptyObj, section |-> <<>>, table |-> <<>>],
               Split(content, "\n")).result

(***************************************************************************)
(* stringifySimpleToml                                                     *)
(***************************************************************************)
\* `[${value.map(v => `"${v}"`).join(', ')}]`
ArrayText(items) ==
    <<"[">> \o Join([i \in 1..Len(items) |-> <<"\"">> \o items[i] \o <<"\"">>],
                    <<",", " ">>) \o <<"]">>

\* the text of a field value
ValueText(value) ==
    CASE value.t = "arr" -> ArrayText(value.v)
      [] value.t = "str" -> <<"\"">> \o value.v \o <<"\"">>
      [] value.t = "num" -> value.v
      [] value.t = "null" -> <<"null">>
      [] OTHER -> <<"[", "object", " ", "Object", "]">>

\* the lines of one table: the header, a line per field, a blank line
TableLines(section, tableName, config) ==
    LET fields == Spread(config).v
    IN << <<"[">> \o section \o <<".">> \o tableName \o <<"]">> >>
       \o [i \in 1..Len(fields) |-> fields[i].k \o <<" ", "=", " ">> \o ValueText(fields[i].v)]
       \o << <<>> >>

RECURSIVE TablesLines(_, _)
TablesLines(section, tables) ==
    IF tables = <<>> THEN <<>>
    ELSE (IF Head(tables).v.t \in {"obj", "arr"}
          THEN TableLines(section, Head(tables).k, Head(tables).v)
          ELSE <<>>)
         \o TablesLines(section, Tail(tables))

RECURSIVE SectionsLines(_)
SectionsLines(sections) ==
    IF sections = <<>> THEN <<>>
    ELSE (IF Head(sections).v.t \in {"obj", "arr"}
          THEN TablesLines(Head(sections).k, Spread(Head(sections).v).v)
          ELSE <<>>)
         \o SectionsLines(Tail(sections))

stringifySimpleToml(obj) == Join(SectionsLines(Spread(obj).v), <<"\n">>)

(***************************************************************************)
(* Files, loadConfig, installMcpConfig, removeMcpConfig                    *)
(*                                                                         *)
(* The content of a file is a record [enc, text, val, layout]:             *)
(*   enc = "absent": there is no file;                                     *)
(*   enc = "text":   the bytes are the symbols of `text` (the minimal TOML *)
(*                   format, or bytes that are not a JSON text);           *)
(*   enc = "json":   the bytes are a JSON text that denotes `val`, laid    *)
(*                   out as `layout` says: "indent2" is the layout of      *)
(*                   JSON.stringify(val, null, 2) followed by "\n".        *)
(* JSON.parse and JSON.stringify are the platform's: JSON.parse returns    *)
(* the value a JSON text denotes and throws on bytes that are none.        *)
(***************************************************************************)
Absent == [enc |-> "absent", text |-> <<>>, val |-> Null, layout |-> ""]
TextFile(text) == [enc |-> "text", text |-> text, val |-> Null, layout |-> ""]
JsonFile(val, layout) == [enc |-> "json", text |-> <<>>, val |-> val, layout |-> layout]

\* filePath.endsWith('.toml')
isTomlFile(filePath) ==
    Len(filePath) >= 2 /\ SubSeq(filePath, Len(filePath) - 1, Len(filePath)) = <<".", "toml">>

\* fs.access(target) succeeds
pathExists(content) == content.enc # "absent"

\* loadJson: [value, bak]: the returned document and the backup file afterwards
loadJson(content, backup) ==
    IF ~pathExists(content) THEN [value |-> EmptyObj, bak |-> backup]
    ELSE IF content.enc = "json" THEN [value |-> content.val, bak |-> backup]
         ELSE IF Trim(content.text) = <<>>
              THEN [value |-> EmptyObj, bak |-> backup]
              \* JSON.parse throws: copyFile(filePath, `${filePath}.bak`)
              ELSE [value |-> EmptyObj, bak |-> content]

\* loadToml: parseSimpleToml has no throw statement, the catch is never taken
loadToml(content, backup) ==
    IF ~pathExists(content) THEN [value |-> EmptyObj, bak |-> backup]
    ELSE IF Trim(content.text) = <<>>
         THEN [value |-> EmptyObj, bak |-> backup]
         ELSE [value |-> parseSimpleToml(content.text), bak |-> backup]

loadConfig(filePath, content, backup) ==
    IF isTomlFile(filePath) THEN loadToml(content, backup) ELSE loadJson(content, backup)

\* fs.writeFile(configPath, <serialized>, "utf8")
Serialize(filePath, document) ==
    IF isTomlFile(filePath)
    THEN TextFile(stringifySimpleToml(document))
    ELSE JsonFile(document, "indent2")

\* existing[serverKey] throws a TypeError when existing is null
PropertyReadThrows(existingDoc) == existingDoc.t = "null"

\* installMcpConfig: [file, bak, loaded, threw]
installMcpConfig(filePath, content, backup, servers, serverKey) ==
    LET ld == loadConfig(filePath, content, backup)
    IN IF PropertyReadThrows(ld.value)
       THEN [file |-> content, bak |-> ld.bak, loaded |-> ld.value, threw |-> TRUE]
       ELSE [ file |-> Serialize(filePath, mergeServers(ld.value, servers, serverKey)),
              bak |-> ld.bak, loaded |-> ld.value, threw |-> FALSE ]

\* removeMcpConfig: [file, bak, loaded, threw, removed, changed]
removeMcpConfig(filePath, content, backup, serverNames, serverKey) ==
    IF ~pathExists(content)
    THEN [ file |-> content, bak |-> backup, loaded |-> EmptyObj, threw |-> FALSE,
           removed |-> 0, changed |-> FALSE ]
    ELSE LET ld == loadConfig(filePath, content, backup)
         IN IF PropertyReadThrows(ld.value)
            THEN [ file |-> content, bak |-> ld.bak, loaded |-> ld.value, threw |-> TRUE,
                   removed |-> 0, changed |-> FALSE ]
            ELSE LET r == removeServers(ld.value, serverNames, serverKey)
                 IN IF r.removed = 0
                    THEN [ file |-> content, bak |-> ld.bak, loaded |-> ld.value,
                           threw |-> FALSE, removed |-> 0, changed |-> FALSE ]
                    ELSE [ file |-> Serialize(filePath, r.updated), bak |-> ld.bak,
                           loaded |-> ld.value, threw |-> FALSE,
                           removed |-> r.removed, changed |-> TRUE ]

(***************************************************************************)
(* ensureRepo                                                              *)
(*                                                                         *)
(* The directory is [kind, rev]: kind "absent" (no directory), "plain" (a  *)
(* directory with no .git in it; rev tells its content apart) or "repo" (a *)
(* checkout of revision rev, with its .git).  A git process either exits   *)
(* with code 0 or fails; which one is the environment's choice.            *)
(***************************************************************************)
NoDir == [kind |-> "absent", rev |-> 0]

\* pathExists(dir)
hasDir(d) == d.kind # "absent"

\* pathExists(path.join(dir, ".git"))
isGitRepo(d) == d.kind = "repo"

\* run("git", ["-C", dir, "pull", "--ff-only"])
GitPull == [cmd |-> "pull", flag |-> "--ff-only"]

\* run("git", ["clone", "--depth", "1", url, dir])
GitClone == [cmd |-> "clone", flag |-> "--depth 1"]

\* ensureRepo without the test for an existing directory: it always clones
ensureRepoAlwaysClones(d, head, exitOk) ==
    [ spawned |-> <<GitClone>>,
      outcome |-> IF exitOk THEN "cloned" ELSE "clone failed",
      dir |-> IF exitOk THEN [kind |-> "repo", rev |-> head] ELSE d ]

\* ensureRepo without the test for the .git marker: it pulls in any directory
ensureRepoNoMarkerTest(d, head, exitOk) ==
    IF hasDir(d)
    THEN [ spawned |-> <<GitPull>>,
           outcome |-> IF exitOk THEN "updated" ELSE "pull failed",
           dir |-> IF exitOk THEN [kind |-> d.kind, rev |-> head] ELSE d ]
    ELSE [ spawned |-> <<GitClone>>,
           outcome |-> IF exitOk THEN "cloned" ELSE "clone failed",
           dir |-> IF exitOk THEN [kind |-> "repo", rev |-> head] ELSE d ]

\* ensureRepo({url, dir}) with the remote at revision `head` and the git
\* process, if one is spawned, ending as exitOk says:
\* [spawned, outcome, dir]: the processes spawned, the action tag returned
\* or the error thrown, and the directory afterwards.
ensureRepo(d, head, exitOk) ==
    IF hasDir(d)
    THEN IF ~isGitRepo(d)
         THEN [spawned |-> <<>>, outcome |-> "not a git repo", dir |-> d]
         ELSE [ spawned |-> <<GitPull>>,
                outcome |-> IF exitOk THEN "updated" ELSE "pull failed",
                \* a fast-forward moves the checkout to the remote head; a
                \* pull that fails leaves the checkout where it was
                dir |-> IF exitOk THEN [kind |-> "repo", rev |-> head] ELSE d ]
    ELSE [ spawned |-> <<GitClone>>,
           outcome |-> IF exitOk THEN "cloned" ELSE "clone failed",
           \* a clone that fails removes what it created
           dir |-> IF exitOk THEN [kind |-> "repo", rev |-> head] ELSE d ]

(***************************************************************************)
(* getPlatform, getAppSupportDir, getIdePaths, getHostApplicationPaths     *)
(*                                                                         *)
(* A path is the sequence of its segments and a segment is a string (a     *)
(* sequence of symbols); path.join(a, b) is a followed by b.  A host       *)
(* descriptor is a function from the fields it has to their values.        *)
(***************************************************************************)
getPlatform(osPlatform) ==
    [ platform |-> osPlatform,
      isWindows |-> osPlatform = "win32",
      isMac |-> osPlatform = "darwin",
      isLinux |-> osPlatform = "linux" ]

PathJoin(a, b) == a \o b

\* os.homedir()
homedir == << <<"home">>, <<"user">> >>

\* process.env.XDG_CONFIG_HOME is not set in the modelled runs
getAppSupportDir(platformInfo, envAppData) ==
    IF platformInfo.isWindows
    THEN IF envAppData # <<>> THEN envAppData
         ELSE PathJoin(homedir, << <<"AppData">>, <<"Roaming">> >>)
    ELSE IF platformInfo.isMac
         THEN PathJoin(homedir, << <<"Library">>, <<"Application", " ", "Support">> >>)
         ELSE PathJoin(homedir, << <<".", "config">> >>)

\* x.field || fallback
FieldOr(x, field, fallback) ==
    IF field \in DOMAIN x /\ x[field] # <<>> THEN x[field] ELSE fallback

\* `.${id}/skills` and `.${id}/mcp.json`
DefaultSkillsFolder(id) == << <<".">> \o id, <<"skills">> >>
DefaultMcpConfigFile(id) == << <<".">> \o id, <<"mcp", ".", "json">> >>

\* the body of the loop of getIdePaths, for one descriptor
IdePaths(projectRoot, platformInfo, envAppData, ide) ==
    LET appSupport == getAppSupportDir(platformInfo, envAppData)
        skillsFolder == FieldOr(ide, "skillsFolder", DefaultSkillsFolder(ide.id))
        mcpConfigFile == FieldOr(ide, "mcpConfigFile", DefaultMcpConfigFile(ide.id))
        hasGlobalPaths == "globalPaths" \in DOMAIN ide
        platformKey == IF platformInfo.isWindows THEN "Win"
                       ELSE IF platformInfo.isMac THEN "macOS" ELSE "null"
        hasOverrides == /\ hasGlobalPaths
                        /\ platformKey # "null"
                        /\ platformKey \in DOMAIN ide.globalPaths
        globalSkillsFolder ==
            IF hasOverrides
            THEN FieldOr(ide.globalPaths[platformKey], "skillsFolder", skillsFolder)
            ELSE skillsFolder
        globalMcpConfigFile ==
            IF hasOverrides
            THEN FieldOr(ide.globalPaths[platformKey], "mcpConfigFile", mcpConfigFile)
            ELSE mcpConfigFile
        useAppSupport == hasGlobalPaths /\ (platformInfo.isWindows \/ platformInfo.isMac)
        globalBase == IF useAppSupport THEN appSupport ELSE homedir
    IN [ name |-> ide.displayName,
         mcpConfig |-> PathJoin(globalBase, globalMcpConfigFile),
         localMcpConfig |-> PathJoin(projectRoot, mcpConfigFile),
         mcpServerKey |-> ide.mcpServerKey,
         skillsDir |-> PathJoin(globalBase, globalSkillsFolder),
         localSkillsDir |-> PathJoin(projectRoot, skillsFolder) ]

\* the ids of the descriptors of a list
IdsOf(configs) == {configs[i].id : i \in 1..Len(configs)}

\* the last descriptor of the list with this id: paths[id] is assigned in order
LastWithId(configs, id) ==
    configs[CHOOSE i \in 1..Len(configs) :
                /\ configs[i].id = id
                /\ \A j \in (i + 1)..Len(configs) : configs[j].id # id]

getIdePaths(projectRoot, platformInfo, envAppData, ideConfigs) ==
    [id \in IdsOf(ideConfigs) |->
        IdePaths(projectRoot, platformInfo, envAppData, LastWithId(ideConfigs, id))]

\* the body of the loop of getHostApplicationPaths, for one descriptor
HostApplicationPaths(projectRoot, hostConfig) ==
    LET skillsFolder == FieldOr(hostConfig, "skillsFolder", DefaultSkillsFolder(hostConfig.id))
        mcpConfigFile == FieldOr(hostConfig, "mcpConfigFile", DefaultMcpConfigFile(hostConfig.id))
    IN [ name |-> hostConfig.displayName,
         mcpConfig |-> PathJoin(homedir, mcpConfigFile),
         localMcpConfig |-> PathJoin(projectRoot, mcpConfigFile),
         mcpServerKey |-> hostConfig.mcpServerKey,
         skillsDir |-> PathJoin(homedir, skillsFolder),
         localSkillsDir |-> PathJoin(projectRoot, skillsFolder) ]

getHostApplicationPaths(projectRoot, platformInfo, hostConfigs) ==
    [id \in IdsOf(hostConfigs) |->
        HostApplicationPaths(projectRoot, LastWithId(hostConfigs, id))]

(***************************************************************************)
(* Inputs of the in-memory document machine                                *)
(***************************************************************************)
MaxIncoming == 2

kServers == <<"servers">>
kMcpServers == <<"mcp_servers">>
SectionKeys == {kServers, kMcpServers}

nWcag == <<"wcag">>
nAria == <<"aria">>
ServerNames == {nWcag, nAria}

srvWcag == [name |-> nWcag, command |-> <<"node">>, args |-> << <<"index">> >>]
srvWcagNoArgs == [name |-> nWcag, command |-> <<"npx">>]
srvAria == [name |-> nAria, command |-> <<"node">>, args |-> <<>>, type |-> <<"stdio">>]
Servers == {srvWcag, srvWcagNoArgs, srvAria}

\* Sequences over S of length at most n
SeqsUpTo(S, n) == UNION {[1..m -> S] : m \in 0..n}

IncomingLists == SeqsUpTo(Servers, MaxIncoming)
NameLists == SeqsUpTo(ServerNames, MaxIncoming)

\* namesOf(S)
NamesOf(incoming) == [i \in 1..Len(incoming) |-> incoming[i].name]

EmptyDoc == EmptyObj
docTheme ==
    Obj(<< Prop(<<"theme">>, Str(<<"dark">>)),
           Prop(kMcpServers, Obj(<< Prop(nAria, ServerConfig(srvAria)) >>)) >>)
docLegacy ==
    Obj(<< Prop(kServers, Str(<<"legacy">>)), Prop(<<"version">>, Num(<<"2">>)) >>)
InitDocs == {EmptyDoc, docTheme, docLegacy}

NoOp == [kind |-> "none", k |-> <<>>, removed |-> 0]

\* the in-memory document machine at rest (the other machines are running)
DocIdle ==
    /\ doc = EmptyDoc
    /\ pre = EmptyDoc
    /\ existing = EmptyDoc
    /\ origin = EmptyDoc
    /\ op = NoOp

DocInit ==
    /\ doc \in InitDocs
    /\ pre = doc
    /\ existing = doc
    /\ origin = doc
    /\ op = NoOp

Merge(incoming, serverKey) ==
    LET call == MergeCall(doc, incoming, serverKey)
    IN /\ doc' = call.merged
       /\ pre' = doc
       /\ existing' = call.existing
       /\ op' = [kind |-> "merge", k |-> serverKey, removed |-> 0]
       /\ UNCHANGED <<origin, notDocVars>>

Remove(removeNames, serverKey) ==
    LET r == removeServers(doc, removeNames, serverKey)
    IN /\ doc' = r.updated
       /\ pre' = doc
       /\ existing' = doc
       /\ op' = [kind |-> "remove", k |-> serverKey, removed |-> r.removed]
       /\ UNCHANGED <<origin, notDocVars>>

DocNext ==
    \/ \E incoming \in IncomingLists, serverKey \in SectionKeys : Merge(incoming, serverKey)
    \/ \E removeNames \in NameLists, serverKey \in SectionKeys : Remove(removeNames, serverKey)

(***************************************************************************)
(* The round trip through the minimal TOML format                          *)
(***************************************************************************)
MaxArgs == 2

ArgItems == {<<"index">>, <<"a">>}
FieldValues ==
    {Str(<<>>), Str(<<"node">>)} \cup {Arr(items) : items \in SeqsUpTo(ArgItems, MaxArgs)}

\* the tables of the supported subset: fields command and args, each optional
TableConfigs ==
    {EmptyObj}
    \cup {Obj(<< Prop(<<"command">>, v) >>) : v \in FieldValues}
    \cup {Obj(<< Prop(<<"args">>, v) >>) : v \in FieldValues}
    \cup {Obj(<< Prop(<<"command">>, v), Prop(<<"args">>, w) >>) :
             v \in FieldValues, w \in FieldValues}

TomlDocs ==
    {EmptyDoc}
    \cup {Obj(<< Prop(kMcpServers, Obj(<< Prop(nWcag, c) >>)) >>) : c \in TableConfigs}
    \cup {Obj(<< Prop(kMcpServers, Obj(<< Prop(nWcag, c), Prop(nAria, ServerConfig(srvAria)) >>)),
                 Prop(<<"profiles">>, Obj(<< Prop(<<"dev">>, c) >>)) >>) : c \in TableConfigs}

TomlIdle ==
    /\ tdoc = EmptyDoc
    /\ ttext = <<>>
    /\ tparsed = EmptyDoc
    /\ tphase = "idle"

TomlInit ==
    /\ tdoc \in TomlDocs
    /\ ttext = <<>>
    /\ tparsed = EmptyDoc
    /\ tphase = "doc"

Stringify ==
    /\ tphase = "doc"
    /\ ttext' = stringifySimpleToml(tdoc)
    /\ tphase' = "text"
    /\ UNCHANGED <<tdoc, tparsed, notTomlVars>>

Parse ==
    /\ tphase = "text"
    /\ tparsed' = parseSimpleToml(ttext)
    /\ tphase' = "parsed"
    /\ UNCHANGED <<tdoc, ttext, notTomlVars>>

TomlNext == Stringify \/ Parse

(***************************************************************************)
(* The config file machine: installMcpConfig and removeMcpConfig on a file *)
(***************************************************************************)
MaxCalls == 3

jsonPath == <<"mcp", ".", "json">>
tomlPath == <<"config", ".", "toml">>

\* a server whose name holds a dot
srvDotted == [name |-> <<"a11y", ".", "issues">>, command |-> <<"npx">>,
              args |-> << <<"index">> >>]
InstallServers == {srvWcagNoArgs, srvAria, srvDotted}
InstallLists == SeqsUpTo(InstallServers, MaxIncoming)
RemoveLists == SeqsUpTo({nWcag, nAria}, 1)

\* the files a run may find at a JSON path
jsonBlank == TextFile(<<" ", "\n">>)
jsonMalformed == TextFile(<<"{", "\"", "servers", "\"", ":">>)
jsonNull == JsonFile(Null, "compact")
jsonNumber == JsonFile(Num(<<"42">>), "compact")
jsonOwned ==
    JsonFile(Obj(<< Prop(<<"theme">>, Str(<<"dark">>)),
                    Prop(kServers, Obj(<< Prop(nAria, ServerConfig(srvWcag)) >>)) >>),
             "compact")
JsonFiles == {Absent, jsonBlank, jsonMalformed, jsonNull, jsonNumber, jsonOwned}

\* the files a run may find at a .toml path
tomlBlank == TextFile(<<"\n">>)
\* servers:
\*   wcag: node
tomlYaml == TextFile(<<"servers", ":", "\n", " ", "wcag", ":", " ", "node">>)
\* # settings
\* [profiles.dev]
\* port = 42
\* [servers.aria]
\* command = "node"
\* args = []
tomlOwned ==
    TextFile(<<"#", " ", "settings", "\n",
               "[", "profiles", ".", "dev", "]", "\n",
               "port", " ", "=", " ", "42", "\n",
               "[", "servers", ".", "aria", "]", "\n",
               "command", " ", "=", " ", "\"", "node", "\"", "\n",
               "args", " ", "=", " ", "[", "]", "\n">>)
TomlFiles == {Absent, tomlBlank, tomlYaml, tomlOwned}

NoCall == [kind |-> "none", S |-> <<>>, names |-> <<>>, k |-> <<>>]

FsIdle ==
    /\ configPath = <<>>
    /\ file = Absent
    /\ bak = Absent
    /\ loaded = EmptyObj
    /\ threw = FALSE
    /\ last = NoCall
    /\ prevFile = Absent
    /\ prevLast = NoCall
    /\ fileOrigin = Absent
    /\ calls = 0

FsInit ==
    /\ \/ configPath = jsonPath /\ file \in JsonFiles
       \/ configPath = tomlPath /\ file \in TomlFiles
    /\ bak = Absent
    /\ loaded = EmptyObj
    /\ threw = FALSE
    /\ last = NoCall
    /\ prevFile = file
    /\ prevLast = NoCall
    /\ fileOrigin = file
    /\ calls = 0

Install(servers, serverKey) ==
    \E r \in {installMcpConfig(configPath, file, bak, servers, serverKey)} :
       /\ calls < MaxCalls
       /\ file' = r.file
       /\ bak' = r.bak
       /\ loaded' = r.loaded
       /\ threw' = r.threw
       /\ last' = [kind |-> "install", S |-> servers, names |-> <<>>, k |-> serverKey]
       /\ prevFile' = file
       /\ prevLast' = last
       /\ calls' = calls + 1
       /\ UNCHANGED <<configPath, fileOrigin, notFsVars>>

Uninstall(serverNames, serverKey) ==
    \E r \in {removeMcpConfig(configPath, file, bak, serverNames, serverKey)} :
       /\ calls < MaxCalls
       /\ file' = r.file
       /\ bak' = r.bak
       /\ loaded' = r.loaded
       /\ threw' = r.threw
       /\ last' = [kind |-> "remove", S |-> <<>>, names |-> serverNames, k |-> serverKey]
       /\ prevFile' = file
       /\ prevLast' = last
       /\ calls' = calls + 1
       /\ UNCHANGED <<configPath, fileOrigin, notFsVars>>

FsNext ==
    \/ \E servers \in InstallLists : Install(servers, kServers)
    \/ \E serverNames \in RemoveLists : Uninstall(serverNames, kServers)

(***************************************************************************)
(* The repository machine: ensureRepo calls on one directory, while the    *)
(* remote repository receives commits                                      *)
(***************************************************************************)
MaxEnsureCalls == 4
MaxRev == 2

RepoIdle ==
    /\ dir = NoDir
    /\ remoteRev = 0
    /\ procs = <<>>
    /\ outcomes = <<>>
    /\ dirOrigin = NoDir
    /\ prevDir = NoDir
    /\ prevProcs = <<>>

RepoInit ==
    /\ dir \in {NoDir, [kind |-> "plain", rev |-> 0], [kind |-> "repo", rev |-> 0]}
    /\ remoteRev = 0
    /\ procs = <<>>
    /\ outcomes = <<>>
    /\ dirOrigin = dir
    /\ prevDir = dir
    /\ prevProcs = <<>>

EnsureRepo(exitOk) ==
    \E r \in {ensureRepo(dir, remoteRev, exitOk)} :
       /\ Len(outcomes) < MaxEnsureCalls
       /\ dir' = r.dir
       /\ procs' = procs \o r.spawned
       /\ outcomes' = Append(outcomes, r.outcome)
       /\ prevDir' = dir
       /\ prevProcs' = procs
       /\ UNCHANGED <<remoteRev, dirOrigin, notRepoVars>>

\* someone pushes a commit to the remote repository
RemotePush ==
    /\ remoteRev < MaxRev
    /\ remoteRev' = remoteRev + 1
    /\ UNCHANGED <<dir, procs, outcomes, dirOrigin, prevDir, prevProcs, notRepoVars>>

RepoNext ==
    \/ \E exitOk \in BOOLEAN : EnsureRepo(exitOk)
    \/ RemotePush

(***************************************************************************)
(* The path resolver machine: one host descriptor, one platform, and a     *)
(* call of either resolver the repository holds                            *)
(***************************************************************************)
projectRoot == << <<"work">>, <<"project">> >>

OsPlatforms == {"win32", "darwin", "linux", "freebsd"}
AppDataValues == {<<>>, << <<"C:">>, <<"Users">>, <<"user">>, <<"AppData">>, <<"Roaming">> >>}

hostId == <<"vscode">>
customSkills == << <<".", "github">>, <<"skills">> >>
customMcp == << <<".", "vscode">>, <<"servers", ".", "json">> >>
overrideSkills == << <<"Code">>, <<"User">>, <<"skills">> >>
overrideMcp == << <<"Code">>, <<"User">>, <<"mcp", ".", "json">> >>

\* a record with the field only when it is given
Optional(field, given, value) == IF given THEN [x \in {field} |-> value] ELSE <<>>

\* the override tables of one platform: each field given or not
OverrideTables ==
    {Optional("skillsFolder", a, overrideSkills) @@ Optional("mcpConfigFile", b, overrideMcp) :
        a \in BOOLEAN, b \in BOOLEAN}

\* the globalPaths of a descriptor: tables for Win, for macOS, both or none
GlobalPathsValues ==
    {<<>>}
    \cup {[x \in {"Win"} |-> t] : t \in OverrideTables}
    \cup {[x \in {"macOS"} |-> t] : t \in OverrideTables}
    \cup {[x \in {"Win", "macOS"} |-> t] : t \in OverrideTables}

HostBase == [id |-> hostId, displayName |-> <<"VSCode">>, mcpServerKey |-> kServers]

HostDescriptors ==
    {HostBase @@ Optional("skillsFolder", a, customSkills)
              @@ Optional("mcpConfigFile", b, customMcp) : a \in BOOLEAN, b \in BOOLEAN}
    \cup {HostBase @@ Optional("skillsFolder", a, customSkills)
                   @@ [x \in {"globalPaths"} |-> g] : a \in BOOLEAN, g \in GlobalPathsValues}

NoPaths ==
    [ name |-> <<>>, mcpConfig |-> <<>>, localMcpConfig |-> <<>>, mcpServerKey |-> <<>>,
      skillsDir |-> <<>>, localSkillsDir |-> <<>> ]

PathIdle ==
    /\ host = HostBase
    /\ platform = "linux"
    /\ appData = <<>>
    /\ resolver = "idle"
    /\ resolved = NoPaths

PathInit ==
    /\ host \in HostDescriptors
    /\ platform \in OsPlatforms
    /\ appData \in AppDataValues
    /\ resolver = "none"
    /\ resolved = NoPaths

GetIdePaths ==
    /\ resolver = "none"
    /\ resolved' = getIdePaths(projectRoot, getPlatform(platform), appData, <<host>>)[host.id]
    /\ resolver' = "getIdePaths"
    /\ UNCHANGED <<host, platform, appData, notPathVars>>

GetHostApplicationPaths ==
    /\ resolver = "none"
    /\ resolved' = getHostApplicationPaths(projectRoot, getPlatform(platform), <<host>>)[host.id]
    /\ resolver' = "getHostApplicationPaths"
    /\ UNCHANGED <<host, platform, appData, notPathVars>>

PathNext == GetIdePaths \/ GetHostApplicationPaths

(***************************************************************************)
(* cloneGitRepo and installGitMcp                                          *)
(*                                                                         *)
(* A message is a sequence of symbols, as the TOML text is; the words of   *)
(* a message are cut so that every pattern cloneGitRepo searches for       *)
(* begins and ends between two symbols.                                    *)
(***************************************************************************)
\* the words of the modelled messages that change under toLowerCase()
Capitalized ==
    [ Authentication |-> "authentication", Repository |-> "repository",
      Username |-> "username", Could |-> "could", ENOENT |-> "enoent",
      Permission |-> "permission" ]

\* s.toLowerCase()
ToLowerCase(s) ==
    [i \in 1..Len(s) |-> IF s[i] \in DOMAIN Capitalized THEN Capitalized[s[i]] ELSE s[i]]

\* s.includes(sub)
Includes(s, sub) ==
    \E i \in 1..(Len(s) - Len(sub) + 1) : SubSeq(s, i, i + Len(sub) - 1) = sub

\* the patterns of cloneGitRepo, in the order it tests them
patAuthentication == <<"authentication">>
patCouldNotRead == <<"fatal", ":", " ", "could", " ", "not", " ", "read">>
patRepositoryNotFound == <<"repository", " ", "not", " ", "found">>
patNotFound == <<"not", " ", "found">>
patCommandNotFound == <<"git", ":", " ", "command", " ", "not", " ", "found">>
patNotRecognized == <<"'", "git", "'", " ", "is", " ", "not", " ", "recognized">>

\* the messages of the errors cloneGitRepo throws
AuthenticationRequired(url) ==
    <<"Authentication required for", " ">> \o url
        \o <<".", " ", "Please ensure the repository is public or configure Git credentials.">>
RepositoryNotFound(url) ==
    <<"Repository not found", ":", " ">> \o url
        \o <<".", " ", "Please verify the URL is correct.">>
GitNotInstalled == <<"Git is not installed. Please install Git and try again.">>
FailedToClone(message) == <<"Failed to clone repository", ":", " ">> \o message

\* the message of the error run() rejects with when the process exits with
\* a code other than 0
RunFailure(command, args, code, stderr) ==
    command \o <<" ">> \o Join(args, <<" ">>)
        \o <<" ", "failed", " ", "with", " ", "code", " ", code, ":", " ">> \o stderr

\* the catch block of cloneGitRepo: the message of the error it throws for
\* the caught err.message
cloneGitRepo(url, message) ==
    LET errorMessage == ToLowerCase(message)
    IN IF Includes(errorMessage, patAuthentication) \/ Includes(errorMessage, patCouldNotRead)
       THEN AuthenticationRequired(url)
       ELSE IF \/ Includes(errorMessage, patRepositoryNotFound)
               \/ Includes(errorMessage, patNotFound)
            THEN RepositoryNotFound(url)
            ELSE IF \/ Includes(errorMessage, patCommandNotFound)
                    \/ Includes(errorMessage, patNotRecognized)
                 THEN GitNotInstalled
                 ELSE FailedToClone(message)

\* the errors installGitMcp throws itself
CancelledByUser == <<"Installation cancelled by user">>
NotOverwritten == <<"Installation cancelled - existing MCP not overwritten">>

\* what installGitMcp does with the answer to the prompt: the await it goes
\* to, and the message it throws ("yes" and "no" are the values of
\* overwriteResponse.overwrite, "cancel" is the onCancel callback)
OnAnswerOverwritesAnyway(answer) == [next |-> "cleanup", thrown |-> <<>>]

OnAnswer(answer) ==
    CASE answer = "cancel" -> [next |-> "done", thrown |-> CancelledByUser]
      [] answer = "no" -> [next |-> "done", thrown |-> NotOverwritten]
      [] OTHER -> [next |-> "cleanup", thrown |-> <<>>]

(***************************************************************************)
(* The installGitMcp machine: a call is suspended at each await            *)
(***************************************************************************)
MaxInstalls == 2

RepoUrls ==
    { <<"https", ":", "/", "/", "github", ".", "com", "/", "acme", "/", "wcag", "-", "mcp">>,
      <<"git", "@", "github", ".", "com", ":", "acme", "/", "aria", "-", "mcp", ".", "git">> }

targetDir == <<"/", "home", "/", "dev", "/", ".", "a11y", "/", "wcag">>

\* what git, or the shell that could not start it, wrote to stderr
CloneStderrs ==
    { <<"fatal", ":", " ", "Authentication", " ", "failed">>,
      <<"fatal", ":", " ", "could", " ", "not", " ", "read", " ", "Username", ":", " ",
        "terminal", " ", "prompts", " ", "disabled">>,
      <<"remote", ":", " ", "Repository", " ", "not", " ", "found", ".">>,
      <<"bash", ":", " ", "git", ":", " ", "command", " ", "not", " ", "found">>,
      <<"/", "bin", "/", "sh", ":", " ", "1", ":", " ", "git", ":", " ", "not", " ", "found">>,
      <<"'", "git", "'", " ", "is", " ", "not", " ", "recognized", " ", "as", " ",
        "an", " ", "internal", " ", "or", " ", "external", " ", "command">>,
      <<"fatal", ":", " ", "unable", " ", "to", " ", "access", " ", "remote", ":", " ",
        "Could", " ", "not", " ", "resolve", " ", "host">>,
      <<>> }

ExitCodes == {"1", "127", "128"}

\* err.message of the clone failures: the process exited with a code other
\* than 0, or the child process emitted "error"
CloneFailures(url) ==
    {RunFailure(<<"git">>, <<<<"clone">>, url, targetDir>>, code, stderr) :
        code \in ExitCodes, stderr \in CloneStderrs}
    \cup { <<"spawn", " ", "/", "bin", "/", "sh", " ", "ENOENT">> }

GitIdle ==
    /\ repoUrl = <<>>
    /\ repoPath = "absent"
    /\ pathBefore = "absent"
    /\ gitPc = "idle"
    /\ overwrite = "unasked"
    /\ steps = <<>>
    /\ cloneErr = <<>>
    /\ thrown = <<>>
    /\ installs = 0

GitInit ==
    /\ repoUrl \in RepoUrls
    /\ repoPath \in {"absent", "other"}
    /\ pathBefore = repoPath
    /\ gitPc = "start"
    /\ overwrite = "unasked"
    /\ steps = <<>>
    /\ cloneErr = <<>>
    /\ thrown = <<>>
    /\ installs = 0

\* installGitMcp up to its first await that can suspend: pathExists, then the
\* warning and the prompt, or straight to the clone
BeginInstall ==
    /\ gitPc \in {"start", "done"}
    /\ installs < MaxInstalls
    /\ installs' = installs + 1
    /\ pathBefore' = repoPath
    /\ overwrite' = "unasked"
    /\ cloneErr' = <<>>
    /\ thrown' = <<>>
    /\ IF repoPath # "absent"
       THEN steps' = <<"warn", "prompt">> /\ gitPc' = "prompt"
       ELSE steps' = <<>> /\ gitPc' = "clone"
    /\ UNCHANGED <<repoUrl, repoPath, notGitVars>>

\* the prompt resolves, or its onCancel callback throws
Answer(answer) ==
    /\ gitPc = "prompt"
    /\ overwrite' = answer
    /\ \E r \in {OnAnswer(answer)} :
          /\ gitPc' = r.next
          /\ thrown' = r.thrown
    /\ UNCHANGED <<repoUrl, repoPath, pathBefore, steps, cloneErr, installs, notGitVars>>

\* await cleanupGitRepo(repoPath): fs.rm removes the directory or rejects
Cleanup(removed) ==
    /\ gitPc = "cleanup"
    /\ IF repoPath = "absent"
       THEN /\ gitPc' = "clone"
            /\ UNCHANGED <<repoPath, steps, thrown>>
       ELSE IF removed
            THEN /\ repoPath' = "absent"
                 /\ steps' = Append(steps, "rm")
                 /\ gitPc' = "clone"
                 /\ UNCHANGED thrown
            ELSE /\ repoPath' \in {repoPath, "partial"}
                 /\ steps' = Append(steps, "rm failed")
                 /\ thrown' = <<"EBUSY", ":", " ", "resource busy or locked", ",", " ", "rm">>
                 /\ gitPc' = "done"
    /\ UNCHANGED <<repoUrl, pathBefore, overwrite, cloneErr, installs, notGitVars>>

\* await cloneGitRepo(repoUrl, repoPath), the clone succeeding
CloneSucceeds ==
    /\ gitPc = "clone"
    /\ repoPath = "absent"
    /\ repoPath' = "cloned"
    /\ steps' = Append(steps, "clone")
    /\ gitPc' = "build"
    /\ UNCHANGED <<repoUrl, pathBefore, overwrite, cloneErr, thrown, installs, notGitVars>>

\* await cloneGitRepo(repoUrl, repoPath), run() rejecting
CloneFails ==
    /\ gitPc = "clone"
    /\ \E message \in CloneFailures(repoUrl) :
          /\ cloneErr' = message
          /\ thrown' = cloneGitRepo(repoUrl, message)
    /\ steps' = Append(steps, "clone failed")
    /\ gitPc' = "done"
    /\ UNCHANGED <<repoUrl, repoPath, pathBefore, overwrite, installs, notGitVars>>

\* await buildGitRepo(repoPath, buildCommand), the warning when it failed,
\* and the return
Build(success) ==
    /\ gitPc = "build"
    /\ steps' = IF success THEN Append(steps, "build")
                ELSE steps \o <<"build failed", "warn">>
    /\ repoPath' = IF success THEN "built" ELSE repoPath
    /\ gitPc' = "done"
    /\ UNCHANGED <<repoUrl, pathBefore, overwrite, cloneErr, thrown, installs, notGitVars>>

GitNext ==
    \/ BeginInstall
    \/ \E answer \in {"yes", "no", "cancel"} : Answer(answer)
    \/ \E removed \in BOOLEAN : Cleanup(removed)
    \/ CloneSucceeds
    \/ CloneFails
    \/ \E success \in BOOLEAN : Build(success)

(***************************************************************************)
(* Specifications                                                          *)
(***************************************************************************)
InitDoc == DocInit /\ TomlIdle /\ FsIdle /\ RepoIdle /\ PathIdle /\ GitIdle
SpecDoc == InitDoc /\ [][DocNext]_vars

InitToml == TomlInit /\ DocIdle /\ FsIdle /\ RepoIdle /\ PathIdle /\ GitIdle
SpecToml == InitToml /\ [][TomlNext]_vars

InitInstall == FsInit /\ DocIdle /\ TomlIdle /\ RepoIdle /\ PathIdle /\ GitIdle
SpecInstall == InitInstall /\ [][FsNext]_vars

InitRepo == RepoInit /\ DocIdle /\ TomlIdle /\ FsIdle /\ PathIdle /\ GitIdle
SpecRepo == InitRepo /\ [][RepoNext]_vars

InitPaths == PathInit /\ DocIdle /\ TomlIdle /\ FsIdle /\ RepoIdle /\ GitIdle
SpecPaths == InitPaths /\ [][PathNext]_vars

InitGit == GitInit /\ DocIdle /\ TomlIdle /\ FsIdle /\ RepoIdle /\ PathIdle
SpecGit == InitGit /\ [][GitNext]_vars

(***************************************************************************)
(* C1: mergeServers(existing, incoming, k) keeps every top-level key other *)
(* than k with exactly the value it had, adds no top-level key other than  *)
(* k, and leaves the caller's `existing` object as it was.                 *)
(***************************************************************************)
MergePreservesOtherKeys ==
    op.kind = "merge" =>
        /\ \A key \in Keys(pre) \ {op.k} :
              Has(doc, key) /\ Get(doc, key) = Get(pre, key)
        /\ (Keys(doc) \ {op.k}) \subseteq Keys(pre)
        /\ existing = pre

\* a merge into an existing section of a document that holds other keys too
MergeIntoSectionWitness ==
    /\ op.kind = "merge"
    /\ HasSection(pre, op.k)
    /\ Keys(pre) \ {op.k} # {}
    /\ Get(doc, op.k) # Get(pre, op.k)

(***************************************************************************)
(* C2: starting from the empty document, after any sequence of             *)
(* mergeServers and removeServers calls a section key is present if and    *)
(* only if it maps to a non-empty mapping of server entries (no empty stub *)
(* section is ever left).                                                  *)
(***************************************************************************)
NoEmptyStubSection ==
    origin = EmptyDoc =>
        \A serverKey \in SectionKeys :
            Has(doc, serverKey) =>
                /\ Get(doc, serverKey).t = "obj"
                /\ Keys(Get(doc, serverKey)) # {}

(***************************************************************************)
(* C3: for every document D, server list S and section key k such that no  *)
(* name of S is an entry of D[k],                                          *)
(* removeServers(mergeServers(D, S, k), namesOf(S), k) returns D up to key *)
(* order and reports as many removals as S has distinct names.             *)
(***************************************************************************)
NoNameCollision(D, S, serverKey) ==
    HasSection(D, serverKey) =>
        \A i \in 1..Len(S) : ~Has(Spread(Get(D, serverKey)), S[i].name)

MergeThenRemoveRestores ==
    \A S \in IncomingLists, serverKey \in SectionKeys :
        NoNameCollision(doc, S, serverKey) =>
            LET r == removeServers(mergeServers(doc, S, serverKey), NamesOf(S), serverKey)
            IN /\ Equiv(r.updated, doc)
               /\ r.removed = Cardinality({S[i].name : i \in 1..Len(S)})

(***************************************************************************)
(* C4: for every document D of the supported subset (section -> table ->   *)
(* field, each field a string or an array of strings, the empty array and  *)
(* the empty string included), parseSimpleToml(stringifySimpleToml(D)) = D *)
(***************************************************************************)
TomlRoundTrip == tphase = "parsed" => tparsed = tdoc

(***************************************************************************)
(* C5: for a config path of either format, any initial file and any server *)
(* set S, calling install(path, S, "servers") twice in succession leaves   *)
(* the file byte-identical to its content after the first call.            *)
(***************************************************************************)
InstallTwiceSameBytes ==
    ( /\ last.kind = "install"
      /\ prevLast.kind = "install"
      /\ last.S = prevLast.S
      /\ last.k = prevLast.k
      /\ ~threw )
    => file = prevFile

(***************************************************************************)
(* C6: for a config file that install did not create, after                *)
(* install(path, servers, k) every top-level key other than k and every    *)
(* entry of section k whose name is not among the installed servers has    *)
(* the same value when the file is loaded after the install as when it was *)
(* loaded before.                                                          *)
(***************************************************************************)
\* the document loadConfig returns for a file, as an object
LoadedFrom(content) == Spread(loadConfig(configPath, content, Absent).value)

\* the entries of section serverKey of a loaded document
EntriesOf(document, serverKey) ==
    IF HasSection(document, serverKey) THEN Spread(Get(document, serverKey)) ELSE EmptyObj

InstallPreservesUnrelated ==
    ( /\ last.kind = "install"
      /\ ~threw
      /\ pathExists(fileOrigin)
      /\ pathExists(prevFile) )
    => LET before == LoadedFrom(prevFile)
           after == LoadedFrom(file)
           installed == {last.S[i].name : i \in 1..Len(last.S)}
       IN /\ \A key \in Keys(before) \ {last.k} :
                Has(after, key) /\ Equiv(Get(after, key), Get(before, key))
          /\ \A name \in Keys(EntriesOf(before, last.k)) \ installed :
                /\ Has(EntriesOf(after, last.k), name)
                /\ Equiv(Get(EntriesOf(after, last.k), name),
                         Get(EntriesOf(before, last.k), name))

(***************************************************************************)
(* C7: load returns the empty document when the file does not exist; for a *)
(* file whose content cannot be parsed as a document in the path's format  *)
(* it copies the original bytes to `<path>.bak` and returns the empty      *)
(* document, so such a file never makes load or a following install fail   *)
(* with an error, and whenever install overwrites it the original bytes    *)
(* exist in the backup.                                                    *)
(***************************************************************************)
\* A file that holds no document of the path's format: at a JSON path,
\* bytes that are not a JSON text or a JSON text that denotes no object; at a
\* .toml path, non-blank bytes in which the format recognizes nothing.
Unparseable(filePath, content) ==
    /\ pathExists(content)
    /\ IF isTomlFile(filePath)
       THEN Trim(content.text) # <<>> /\ parseSimpleToml(content.text) = EmptyObj
       ELSE \/ content.enc = "text" /\ Trim(content.text) # <<>>
            \/ content.enc = "json" /\ content.val.t # "obj"

CorruptFileIsBackedUp ==
    last.kind = "install" =>
        /\ ~pathExists(prevFile) => loaded = EmptyObj
        /\ Unparseable(configPath, prevFile) =>
              /\ ~threw
              /\ loaded = EmptyObj
              /\ bak = prevFile

(***************************************************************************)
(* C8: ensureRepo called when dir does not exist performs a shallow clone  *)
(* and returns `cloned`; after a successful clone the next call performs a *)
(* fast-forward-only update, never a second clone, and returns `updated`;  *)
(* in any sequence of successful calls on a directory that did not exist,  *)
(* exactly the first returns `cloned` and all later ones `updated`.        *)
(***************************************************************************)
\* the action tags of the calls that succeeded, in order
Successes ==
    LET ok(o) == o \in {"cloned", "updated"}
    IN SelectSeq(outcomes, ok)

ClonedOnceThenUpdated ==
    /\ dirOrigin = NoDir =>
          \A i \in 1..Len(Successes) :
              Successes[i] = IF i = 1 THEN "cloned" ELSE "updated"
    /\ (outcomes # <<>> /\ prevDir = NoDir) =>
          /\ procs = Append(prevProcs, GitClone)
          /\ outcomes[Len(outcomes)] \in {"cloned", "clone failed"}
    /\ (Len(outcomes) >= 2 /\ outcomes[Len(outcomes) - 1] = "cloned") =>
          /\ procs = Append(prevProcs, GitPull)
          /\ outcomes[Len(outcomes)] \in {"updated", "pull failed"}

\* a clone that succeeded, followed by two updates that succeeded
ClonedThenUpdatedWitness ==
    /\ dirOrigin = NoDir
    /\ Len(Successes) >= 3
    /\ outcomes[Len(outcomes)] = "updated"
    /\ outcomes[Len(outcomes) - 1] = "cloned" \/ outcomes[Len(outcomes) - 1] = "updated"

(***************************************************************************)
(* C9: ensureRepo called when dir exists but holds no .git fails with the  *)
(* not-a-git-repo error, starts no git process and leaves the directory as *)
(* it was.                                                                 *)
(***************************************************************************)
UnmanagedDirUntouched ==
    (outcomes # <<>> /\ prevDir.kind = "plain") =>
        /\ outcomes[Len(outcomes)] = "not a git repo"
        /\ procs = prevProcs
        /\ dir = prevDir

\* a call on a plain directory has ended, after the remote has moved on
UnmanagedDirWitness ==
    /\ outcomes # <<>>
    /\ prevDir.kind = "plain"
    /\ remoteRev > 0
    /\ outcomes[Len(outcomes)] = "not a git repo"

(***************************************************************************)
(* C10: for every host descriptor and platform the resolver's global paths *)
(* follow the two-tier policy: with overrides declared and the platform    *)
(* Windows or Mac, both are the application-support directory joined with  *)
(* the name of the matching platform's override, falling back per field to *)
(* the default name; otherwise both are the home directory joined with the *)
(* default names.  Local paths are the project root joined with the        *)
(* default names.                                                          *)
(***************************************************************************)
\* the name the policy gives a global path
PolicyGlobalName(field, defaultName) ==
    LET key == IF platform = "win32" THEN "Win" ELSE "macOS"
    IN IF key \in DOMAIN host.globalPaths
       THEN FieldOr(host.globalPaths[key], field, defaultName)
       ELSE defaultName

TwoTierGlobalPaths ==
    resolver \in {"getIdePaths", "getHostApplicationPaths"} =>
        LET defaultSkills == FieldOr(host, "skillsFolder", DefaultSkillsFolder(host.id))
            defaultMcp == FieldOr(host, "mcpConfigFile", DefaultMcpConfigFile(host.id))
            tierOne == "globalPaths" \in DOMAIN host /\ platform \in {"win32", "darwin"}
            appSupport == getAppSupportDir(getPlatform(platform), appData)
        IN /\ resolved.localSkillsDir = PathJoin(projectRoot, defaultSkills)
           /\ resolved.localMcpConfig = PathJoin(projectRoot, defaultMcp)
           /\ IF tierOne
              THEN /\ resolved.skillsDir =
                         PathJoin(appSupport, PolicyGlobalName("skillsFolder", defaultSkills))
                   /\ resolved.mcpConfig =
                         PathJoin(appSupport, PolicyGlobalName("mcpConfigFile", defaultMcp))
              ELSE /\ resolved.skillsDir = PathJoin(homedir, defaultSkills)
                   /\ resolved.mcpConfig = PathJoin(homedir, defaultMcp)

(***************************************************************************)
(* C11: installGitMcp on an existing directory: when the prompt is         *)
(* declined or cancelled the call has thrown a cancellation error, has     *)
(* done nothing after the prompt (no delete, no clone, no build) and the   *)
(* directory is as it was; when it is confirmed the delete is done before  *)
(* any clone; a build is only ever preceded by a successful clone; when    *)
(* the directory does not exist nothing is asked and the clone is the      *)
(* first thing done.                                                       *)
(***************************************************************************)
\* the positions in steps of the effects of the given kinds
StepsOf(kinds) == {i \in 1..Len(steps) : steps[i] \in kinds}

InstallGitMcpOrder ==
    /\ overwrite \in {"no", "cancel"} =>
          /\ gitPc = "done"
          /\ thrown \in {CancelledByUser, NotOverwritten}
          /\ StepsOf({"rm", "rm failed", "clone", "clone failed", "build", "build failed"}) = {}
          /\ repoPath = pathBefore
    /\ overwrite = "yes" =>
          \A i \in StepsOf({"clone", "clone failed"}) : \E j \in StepsOf({"rm"}) : j < i
    /\ \A i \in StepsOf({"build", "build failed"}) : \E j \in StepsOf({"clone"}) : j < i
    /\ (gitPc \notin {"idle", "start"} /\ pathBefore # "absent") =>
          /\ StepsOf({"prompt"}) # {}
          /\ StepsOf({"rm", "rm failed", "clone", "clone failed"}) # {} => overwrite = "yes"
    /\ (gitPc \notin {"idle", "start"} /\ pathBefore = "absent") =>
          /\ overwrite = "unasked"
          /\ StepsOf({"prompt", "rm", "rm failed"}) = {}
          /\ steps # <<>> => steps[1] \in {"clone", "clone failed"}

\* an existing directory was overwritten after the user confirmed
OverwriteConfirmedWitness ==
    /\ gitPc = "done"
    /\ pathBefore # "absent"
    /\ overwrite = "yes"
    /\ steps = <<"warn", "prompt", "rm", "clone", "build">>
    /\ repoPath = "built"

(***************************************************************************)
(* C12: every clone failure is classified by its text: an authentication   *)
(* problem gives the authentication-required message, a repository that    *)
(* was not found gives the repository-not-found message, "git: command not *)
(* found" or "'git' is not recognized" gives the tool-not-installed        *)
(* message, and any other text gives the generic failure message.          *)
(***************************************************************************)
IndicatesAuthentication(text) ==
    Includes(text, patAuthentication) \/ Includes(text, patCouldNotRead)
IndicatesRepositoryNotFound(text) == Includes(text, patRepositoryNotFound)
IndicatesGitMissing(text) ==
    Includes(text, patCommandNotFound) \/ Includes(text, patNotRecognized)

CloneFailureClassified ==
    cloneErr # <<>> =>
        LET text == ToLowerCase(cloneErr)
        IN /\ IndicatesAuthentication(text) => thrown = AuthenticationRequired(repoUrl)
           /\ IndicatesRepositoryNotFound(text) => thrown = RepositoryNotFound(repoUrl)
           /\ IndicatesGitMissing(text) => thrown = GitNotInstalled
           /\ (/\ ~IndicatesAuthentication(text)
               /\ ~IndicatesRepositoryNotFound(text)
               /\ ~IndicatesGitMissing(text)) => thrown = FailedToClone(cloneErr)

====
